---- MODULE Spec2Model ----
(***************************************************************************)
(* ShellBot: a wrapper that runs a command under a pseudo-terminal         *)
(* (src/shell_bot_pty_fixed.py, class ShellBotPTY) and a minimal variant   *)
(* that runs it on pipes (src/shell_bot_minimal.py, class MinimalShellBot).*)
(*                                                                         *)
(* The wrapper is one sequential process; the child, the user's terminal   *)
(* and the operating system are its environment.  The wrapper's position   *)
(* is pc; every system call of the wrapper is one step, with the outcomes  *)
(* the call can have chosen nondeterministically.                          *)
(*                                                                         *)
(* The game the wrapper is demonstrated with (src/adding_game.py, class    *)
(* AddingGame) is one more sequential process: its object is the record    *)
(* game, its steps are the key presses its loop reads.                     *)
(***************************************************************************)
EXTENDS Integers, Sequences, FiniteSets, TLC

\* ------------------------------------------------------------------ bounds
MaxInput == 2        \* bytes the user types during one session
MaxOutput == 2       \* bytes the child writes during one session
MaxPolls == 3        \* select() calls counted once the master is at end-of-stream
MaxCleanups == 3     \* calls of _cleanup made on one object
MaxQuestions == 2    \* questions answered in one game
OperandSpan == 1     \* operands taken within this distance of each end of their range

\* --------------------------------------------------------------- constants
ReadSize == 8192     \* os.read(fd, 8192)
NumLo == 10          \* random.randint(10, 99)
NumHi == 99

\* Python's None, where the other values are integers (a descriptor, a pid,
\* an exit code, a wait status)
None == -1
ExitCodes == {0, 42}           \* codes a child program exits with
Signals == {9, 15}             \* SIGKILL, SIGTERM
SIGTERM == 15
Streams == {"out", "err"}      \* the child's stdout and stderr pipes
FdChoices == {3}               \* descriptor numbers pty.fork hands out (0, 1, 2 are taken)
Pids == {101}

\* ---------------------------------------------------------------- helpers
Min(a, b) == IF a <= b THEN a ELSE b
Take(s, n) == SubSeq(s, 1, Min(n, Len(s)))
Drop(s, n) == SubSeq(s, Min(n, Len(s)) + 1, Len(s))
IsPrefix(a, b) == Len(a) <= Len(b) /\ SubSeq(b, 1, Len(a)) = a

\* Python truthiness of "if self.master_fd:" / "if self.pid:"
Truthy(x) == x # None /\ x # 0

\* wait status of a child that called exit(c) / was terminated by signal s
ExitedStatus(c) == c * 256
SignaledStatus(s) == s
WIFEXITED(st) == st % 128 = 0

\* a variant that returns the low byte of the status instead
WEXITSTATUS_LowByte(st) == st % 256

\* os.WEXITSTATUS(status)
WEXITSTATUS(st) == (st \div 256) % 256

\* a variant of the except clause that returns 0
ExceptReturnZero == 1 - 1

\* "return 1" of the except clause of run
ExceptReturn == 1

\* the commands a session is constructed with: whether shlex.split accepts
\* the string, how many words it yields, whether the string uses shell
\* constructs (a pipeline, a redirection), whether argv[0] can be executed
Commands ==
    { [tok |-> TRUE,  words |-> 2, shell |-> FALSE, found |-> TRUE],
      [tok |-> TRUE,  words |-> 2, shell |-> FALSE, found |-> FALSE],
      [tok |-> TRUE,  words |-> 1, shell |-> FALSE, found |-> TRUE],
      [tok |-> TRUE,  words |-> 3, shell |-> TRUE,  found |-> TRUE],
      [tok |-> FALSE, words |-> 0, shell |-> FALSE, found |-> TRUE] }

VARIABLES
    command,      \* self.command
    pc,           \* position of the wrapper (parent) in run
    term,         \* attributes of the real terminal: "cooked" or "raw"
    old_termios,  \* the snapshot taken by tcgetattr, "none" before
    nRestore,     \* calls of tcsetattr(stdin_fd, TCSADRAIN, old_termios)
    wasRaw,       \* tty.setraw has put the terminal into raw mode
    master_fd,    \* self.master_fd
    pid,          \* self.pid
    running,      \* self.running
    masterOpen,   \* the parent holds an open pty master descriptor
    allocated,    \* pty.fork returned in the parent
    nClose,       \* calls of os.close(self.master_fd)
    badUse,       \* a select/read/write/close hit the master after its close
    exc,          \* an exception is propagating out of the inner try
    ret,          \* value run returned, None before
    wrapperErr,   \* the wrapper took one of its own error paths
    interrupted,  \* KeyboardInterrupt was delivered in the forwarding loop
    loopEnd,      \* how the forwarding loop ended, "none" before
    polls,        \* select() calls made with the master at end-of-stream
    ready,        \* ready_fds of the current iteration
    ioErr,        \* a read or write of the loop failed, not with would-block
    nonblock,     \* O_NONBLOCK on the open file description of stdin
    shared,       \* stdin and stdout are the same open file description
    stdinBuf,     \* typed bytes not yet read by the wrapper
    stdinCond,    \* "open", "eof" (reads return b'') or "err" (reads fail)
    stdinRead,    \* all bytes the wrapper read from stdin
    toMaster,     \* all bytes accepted by writes to the pty master
    ptyOut,       \* bytes the child wrote, not yet read from the master
    masterRead,   \* all bytes the wrapper read from the master
    toStdout,     \* all bytes accepted by writes to stdout
    child,        \* "none", "forked", "running", "exited", "signaled", "reaped"
    status,       \* wait status of the terminated child
    execMode,     \* "none", "argv" (execvp) or "shell" (bash -c)
    execFailed,   \* the child could not replace its program image
    childEffects, \* what the failing child did to the session on its way out
    kills,        \* (pid, state of the child) of every os.kill made, in order
    nCleanup,     \* calls of _cleanup
    cleanupRaised,\* a call of _cleanup let an exception out
    printedIn     \* terminal attributes in force at each "Error: ..." print

\* MinimalShellBot (src/shell_bot_minimal.py)
VARIABLES
    m_pc,         \* position of the minimal wrapper in run
    m_child,      \* "none", "running", "exited"
    m_code,       \* exit code of the exited child
    m_returncode, \* self.process.returncode (None until poll/wait sees the exit)
    m_readsStdin, \* the command reads its stdin until end-of-file before exiting
    m_childIn,    \* bytes written to self.process.stdin
    m_childInEof, \* self.process.stdin was closed
    m_wrote,      \* per stream ("out", "err"): all bytes the child wrote
    m_pipe,       \* per stream: bytes in the pipe, not yet read by the wrapper
    m_fwd,        \* per stream: bytes the wrapper wrote to its own stream
    m_ready,      \* ready_fds of the current iteration
    m_interrupted,\* KeyboardInterrupt was delivered in select
    m_stdin,      \* bytes that arrived on the wrapper's stdin
    m_stdinEof,   \* the wrapper's stdin is at end-of-file
    m_ret         \* value run returned, None before

\* AddingGame (src/adding_game.py)
VARIABLE
    game          \* the AddingGame object, with run's position (pc) and the
                  \* character run read last (key)

\* no AddingGame in this process
GameOff ==
    game = [pc |-> "off", running |-> FALSE, correct_answers |-> 0,
            total_questions |-> 0, current_question |-> << >>,
            current_options |-> << >>, correct_index |-> 0,
            input_buffer |-> "", key |-> ""]

minVars == << m_pc, m_child, m_code, m_returncode, m_readsStdin, m_childIn,
              m_childInEof, m_wrote, m_pipe, m_fwd, m_ready, m_interrupted,
              m_stdin, m_stdinEof, m_ret >>

ptyVars == << command, pc, term, old_termios, nRestore, master_fd, pid, running,
           masterOpen, allocated, nClose, badUse, exc, ret, wrapperErr,
           interrupted, loopEnd, polls, ready, ioErr, nonblock, shared, stdinBuf,
           stdinCond, stdinRead, toMaster, ptyOut, masterRead, toStdout,
           child, status, execMode, execFailed, childEffects, kills,
           printedIn, wasRaw, nCleanup, cleanupRaised >>

vars == << ptyVars, minVars, game >>

ioVars == << stdinBuf, stdinCond, stdinRead, toMaster, ptyOut, masterRead,
             toStdout >>
childVars == << child, status, execMode, execFailed, childEffects >>
cleanupVars == << nCleanup, cleanupRaised >>
fdVars == << master_fd, pid, masterOpen, allocated, nClose, badUse, kills,
             cleanupVars >>
termVars == << term, old_termios, nRestore, printedIn, wasRaw >>
loopVars == << running, interrupted, loopEnd, polls, ready, ioErr >>

\* ------------------------------------------------------------------ Init
\* no MinimalShellBot in this process
MinimalOff ==
    /\ m_pc = "off"
    /\ m_child = "none"
    /\ m_code = None
    /\ m_returncode = None
    /\ m_readsStdin = FALSE
    /\ m_childIn = << >>
    /\ m_childInEof = FALSE
    /\ m_wrote = [s \in Streams |-> << >>]
    /\ m_pipe = [s \in Streams |-> << >>]
    /\ m_fwd = [s \in Streams |-> << >>]
    /\ m_ready = {}
    /\ m_interrupted = FALSE
    /\ m_stdin = << >>
    /\ m_stdinEof = FALSE
    /\ m_ret = None

\* self.pid = None; self.master_fd = None: no pty, no child
NoSession ==
    /\ master_fd = None
    /\ pid = None
    /\ masterOpen = FALSE
    /\ allocated = FALSE
    /\ child = "none"
    /\ status = None

\* the rest of ShellBotPTY.__init__ and of the environment before run is called
FreshRest ==
    /\ term = "cooked"
    /\ old_termios = "none"
    /\ nRestore = 0
    /\ running = TRUE
    /\ nClose = 0
    /\ badUse = FALSE
    /\ exc = FALSE
    /\ ret = None
    /\ wrapperErr = FALSE
    /\ interrupted = FALSE
    /\ loopEnd = "none"
    /\ polls = 0
    /\ ready = {}
    /\ ioErr = FALSE
    /\ nonblock = FALSE
    /\ stdinBuf = << >>
    /\ stdinCond = "open"
    /\ stdinRead = << >>
    /\ toMaster = << >>
    /\ ptyOut = << >>
    /\ masterRead = << >>
    /\ toStdout = << >>
    /\ execMode = "none"
    /\ execFailed = FALSE
    /\ childEffects = {}
    /\ kills = << >>
    /\ printedIn = {}
    /\ wasRaw = FALSE
    /\ nCleanup = 0
    /\ cleanupRaised = FALSE

\* ShellBotPTY.__init__ and the environment before run is called
PtyFresh == NoSession /\ FreshRest

\* no ShellBotPTY in this process
PtyOff ==
    /\ command = [tok |-> TRUE, words |-> 1, shell |-> FALSE, found |-> TRUE]
    /\ shared = FALSE
    /\ pc = "off"
    /\ PtyFresh

Init ==
    /\ command \in Commands
    /\ shared \in BOOLEAN
    /\ pc = "start"
    /\ PtyFresh
    /\ MinimalOff
    /\ GameOff

\* ------------------------------------------------------ the wrapper: run
\* old_termios = termios.tcgetattr(stdin_fd); fails when stdin is no terminal
Tcgetattr ==
    /\ pc = "start"
    /\ \/ /\ old_termios' = term
          /\ pc' = "fork"
       \/ /\ old_termios' = old_termios
          /\ pc' = "except"
    /\ UNCHANGED << game, minVars, command, term, nRestore, printedIn, wasRaw, fdVars,
                    loopVars, exc, ret, wrapperErr, nonblock, shared, ioVars,
                    childVars >>

\* pid, master_fd = pty.fork(), in the parent: self.pid, self.master_fd
PtyFork ==
    /\ pc = "fork"
    /\ \/ \E fd \in FdChoices, p \in Pids :
            /\ master_fd' = fd
            /\ pid' = p
            /\ masterOpen' = TRUE
            /\ allocated' = TRUE
            /\ child' = "forked"
            /\ pc' = "setraw"
       \/ /\ pc' = "except"
          /\ UNCHANGED << master_fd, pid, masterOpen, allocated, child >>
    /\ UNCHANGED << game, minVars, command, termVars, loopVars, nClose, badUse, exc, ret,
                    wrapperErr, nonblock, shared, ioVars, status, execMode,
                    execFailed, childEffects, kills, cleanupVars >>

\* tty.setraw(stdin_fd), first statement of the inner try
Setraw ==
    /\ pc = "setraw"
    /\ \/ /\ term' = "raw"
          /\ wasRaw' = TRUE
          /\ pc' = "fcntl"
          /\ exc' = exc
       \/ /\ term' = term
          /\ wasRaw' = wasRaw
          /\ pc' = "restore"
          /\ exc' = TRUE
    /\ UNCHANGED << game, minVars, command, old_termios, nRestore, printedIn, fdVars,
                    loopVars, ret, wrapperErr, nonblock, shared, ioVars,
                    childVars >>

\* _forward_io, before the loop: fcntl(stdin_fd, F_SETFL, fl | O_NONBLOCK)
\* fcntl raises OSError when it fails: out of _forward_io, through the inner
\* finally
SetNonblock ==
    /\ pc = "fcntl"
    /\ \/ /\ nonblock' = TRUE
          /\ pc' = "loop"
          /\ exc' = exc
       \/ /\ nonblock' = nonblock
          /\ pc' = "restore"
          /\ exc' = TRUE
    /\ UNCHANGED << game, minVars, command, termVars, fdVars, loopVars, ret,
                    wrapperErr, shared, ioVars, childVars >>

\* ------------------------------------------- the wrapper: _forward_io loop
Terminated == {"exited", "signaled", "reaped"}
LoopPcs == {"loop", "h_stdin", "h_master"}

\* the slave side is closed and nothing is left to read: a read of the
\* master returns b'' or fails
MasterAtEof == child \in Terminated /\ ptyOut = << >>

StdinReady == stdinBuf # << >> \/ stdinCond # "open"
MasterReady == ptyOut # << >> \/ child \in Terminated

\* O_NONBLOCK is a flag of the open file description: it reaches stdout when
\* stdout is the same description as stdin
NonblockingStdout == shared /\ nonblock

\* outcomes of os.write(self.master_fd, data) on the blocking master
MasterWriteOutcomes(data) == {"full", "error"}

\* outcomes of os.write(stdout_fd, data)
StdoutWriteOutcomes(data) ==
    {"full", "error"}
        \cup (IF NonblockingStdout THEN {"eagain"} ELSE {})
        \cup (IF NonblockingStdout /\ Len(data) > 1 THEN {"short"} ELSE {})

\* while self.running: ready_fds, _, _ = select.select(read_fds, [], [], 0.1)
Select ==
    /\ pc = "loop"
    /\ running
    /\ ~MasterAtEof \/ polls < MaxPolls
    /\ ready' = (IF StdinReady THEN {"stdin"} ELSE {})
                   \cup (IF MasterReady THEN {"master"} ELSE {})
    /\ polls' = IF MasterAtEof THEN polls + 1 ELSE polls
    /\ badUse' = (badUse \/ ~masterOpen)
    /\ pc' = IF ready' = {} THEN "loop" ELSE "h_stdin"
    /\ UNCHANGED << game, minVars, command, termVars, master_fd, pid, masterOpen, allocated,
                    nClose, kills, cleanupVars, running, exc, ret, wrapperErr, interrupted,
                    loopEnd, ioErr, nonblock, shared, ioVars, childVars >>

\* for fd in ready_fds: if fd == stdin_fd: ... (Terminal -> PTY)
HandleStdin ==
    /\ pc = "h_stdin"
    /\ IF "stdin" \notin ready
         THEN /\ pc' = "h_master"
              /\ UNCHANGED << stdinBuf, stdinRead, toMaster, badUse, ioErr >>
         ELSE IF stdinBuf # << >>
         THEN \* data = os.read(stdin_fd, 8192); os.write(self.master_fd, data)
              LET data == Take(stdinBuf, ReadSize) IN
              /\ stdinBuf' = Drop(stdinBuf, ReadSize)
              /\ stdinRead' = stdinRead \o data
              /\ badUse' = (badUse \/ ~masterOpen)
              /\ \E o \in MasterWriteOutcomes(data) :
                    \/ /\ o = "full"
                       /\ toMaster' = toMaster \o data
                       /\ ioErr' = ioErr
                       /\ pc' = "h_master"
                    \/ \* OSError other than EAGAIN: break (out of the for)
                       /\ o = "error"
                       /\ toMaster' = toMaster
                       /\ ioErr' = TRUE
                       /\ pc' = "loop"
         ELSE IF stdinCond = "eof"
         THEN \* data == b'': nothing is written
              /\ pc' = "h_master"
              /\ UNCHANGED << stdinBuf, stdinRead, toMaster, badUse, ioErr >>
         ELSE \* os.read raises OSError other than EAGAIN: break (out of the for)
              /\ pc' = "loop"
              /\ ioErr' = TRUE
              /\ UNCHANGED << stdinBuf, stdinRead, toMaster, badUse >>
    /\ UNCHANGED << game, minVars, command, termVars, master_fd, pid, masterOpen, allocated,
                    nClose, kills, cleanupVars, running, interrupted, loopEnd, polls,
                    ready, exc, ret, wrapperErr, nonblock, shared, stdinCond,
                    ptyOut, masterRead, toStdout, childVars >>

\* for fd in ready_fds: elif fd == self.master_fd: ... (PTY -> Terminal)
HandleMaster ==
    /\ pc = "h_master"
    /\ IF "master" \notin ready
         THEN /\ pc' = "loop"
              /\ UNCHANGED << ptyOut, masterRead, toStdout, badUse, running,
                              loopEnd, ioErr >>
         ELSE /\ badUse' = (badUse \/ ~masterOpen)
              /\ IF ptyOut # << >>
                   THEN \* data = os.read(self.master_fd, 8192)
                        LET data == Take(ptyOut, ReadSize) IN
                        /\ ptyOut' = Drop(ptyOut, ReadSize)
                        /\ masterRead' = masterRead \o data
                        /\ \E o \in StdoutWriteOutcomes(data) :
                              \/ /\ o = "full"
                                 /\ toStdout' = toStdout \o data
                                 /\ pc' = "loop"
                                 /\ UNCHANGED << running, loopEnd, ioErr >>
                              \/ \* the count os.write returns is not looked at
                                 /\ o = "short"
                                 /\ \E n \in 1 .. (Len(data) - 1) :
                                       toStdout' = toStdout \o Take(data, n)
                                 /\ pc' = "loop"
                                 /\ UNCHANGED << running, loopEnd, ioErr >>
                              \/ \* except (OSError, IOError), EAGAIN included
                                 /\ o \in {"eagain", "error"}
                                 /\ toStdout' = toStdout
                                 /\ ioErr' = (ioErr \/ o = "error")
                                 /\ running' = FALSE
                                 /\ loopEnd' = IF o = "eagain" THEN "write_eagain"
                                                ELSE "write_error"
                                 /\ pc' = "wait"
                   ELSE \* b'' (PTY closed) or OSError (EIO on Linux)
                        /\ \E how \in {"eof", "read_error"} : loopEnd' = how
                        /\ running' = FALSE
                        /\ pc' = "wait"
                        /\ UNCHANGED << ptyOut, masterRead, toStdout, ioErr >>
    /\ UNCHANGED << game, minVars, command, termVars, master_fd, pid, masterOpen, allocated,
                    nClose, kills, cleanupVars, interrupted, polls, ready, exc, ret,
                    wrapperErr, nonblock, shared, stdinBuf, stdinCond,
                    stdinRead, toMaster, childVars >>

\* except (select.error, KeyboardInterrupt): self.running = False; break
Interrupt ==
    /\ pc \in LoopPcs
    /\ ~interrupted
    /\ interrupted' = TRUE
    /\ running' = FALSE
    /\ loopEnd' = "interrupt"
    /\ pc' = "wait"
    /\ UNCHANGED << game, minVars, command, termVars, fdVars, polls, ready, ioErr, exc,
                    ret, wrapperErr, nonblock, shared, ioVars, childVars >>

\* _, status = os.waitpid(self.pid, 0); return os.WEXITSTATUS(status)
\* except ChildProcessError: return 1
Waitpid ==
    /\ pc = "wait"
    /\ child \in {"exited", "signaled"}
    /\ \/ /\ ret' = WEXITSTATUS(status)
          /\ wrapperErr' = wrapperErr
       \/ /\ ret' = 1
          /\ wrapperErr' = TRUE
    /\ child' = "reaped"
    /\ pc' = "restore"
    /\ UNCHANGED << game, minVars, command, termVars, fdVars, loopVars, exc, nonblock,
                    shared, ioVars, status, execMode, execFailed,
                    childEffects >>

\* a variant of run without the inner finally
RestoreTerminalSkipped ==
    /\ pc = "restore"
    /\ pc' = IF exc THEN "except" ELSE "cleanup"
    /\ UNCHANGED << game, minVars, command, termVars, fdVars, loopVars, exc, ret,
                    wrapperErr, nonblock, shared, ioVars, childVars >>

\* finally: termios.tcsetattr(stdin_fd, termios.TCSADRAIN, old_termios)
RestoreTerminal ==
    /\ pc = "restore"
    /\ nRestore' = nRestore + 1
    /\ \/ /\ term' = old_termios
          /\ exc' = exc
          /\ pc' = IF exc THEN "except" ELSE "cleanup"
       \/ /\ term' = term
          /\ exc' = TRUE
          /\ pc' = "except"
    /\ UNCHANGED << game, minVars, command, old_termios, printedIn, wasRaw, fdVars,
                    loopVars, ret, wrapperErr, nonblock, shared, ioVars,
                    childVars >>

\* except Exception as e: print(f"Error: {e}", file=sys.stderr); return 1
ExceptHandler ==
    /\ pc = "except"
    /\ printedIn' = printedIn \cup {term}
    /\ ret' = ExceptReturn
    /\ wrapperErr' = TRUE
    /\ exc' = FALSE
    /\ pc' = "cleanup"
    /\ UNCHANGED << game, minVars, command, term, old_termios, nRestore, wasRaw, fdVars,
                    loopVars, nonblock, shared, ioVars, childVars >>

\* ------------------------------------------------- the wrapper: _cleanup
\* what _cleanup does for given self.master_fd and self.pid
CleanupEffects(mfd, p) ==
    (IF Truthy(mfd) THEN {"close"} ELSE {})
        \cup (IF Truthy(p) THEN {"kill"} ELSE {})

\* "try: ... except: pass": a bare except clause catches every exception
BareExceptCatches(e) == TRUE

\* os.close raises OSError (EBADF) on a descriptor that is not open
CloseErrors == IF masterOpen THEN {} ELSE {"OSError"}

\* os.kill raises ProcessLookupError when no process has that pid; a child
\* that has terminated and was not waited for still has it
KillErrors == IF child \in {"none", "reaped"} THEN {"ProcessLookupError"} ELSE {}

\* a variant of _cleanup that leaves the descriptor alone
CloseMasterSkipped ==
    UNCHANGED << master_fd, masterOpen, nClose, badUse >>

\* if self.master_fd: os.close(self.master_fd) ...; self.master_fd = None
CloseMaster ==
    IF "close" \in CleanupEffects(master_fd, pid)
      THEN /\ nClose' = nClose + 1
           /\ badUse' = (badUse \/ ~masterOpen)
           /\ masterOpen' = FALSE
           /\ master_fd' = None
      ELSE UNCHANGED << master_fd, masterOpen, nClose, badUse >>

\* a variant of _cleanup that keeps self.pid after the signal
KillChildKeepsPid ==
    IF "kill" \in CleanupEffects(master_fd, pid)
      THEN /\ kills' = Append(kills, << pid, child >>)
           /\ pid' = pid
           /\ IF child \in {"forked", "running"}
                THEN /\ child' = "signaled"
                     /\ status' = SignaledStatus(SIGTERM)
                ELSE UNCHANGED << child, status >>
      ELSE UNCHANGED << kills, pid, child, status >>

\* if self.pid: os.kill(self.pid, signal.SIGTERM) ...; self.pid = None
KillChild ==
    IF "kill" \in CleanupEffects(master_fd, pid)
      THEN /\ kills' = Append(kills, << pid, child >>)
           /\ pid' = None
           /\ IF child \in {"forked", "running"}
                THEN /\ child' = "signaled"
                     /\ status' = SignaledStatus(SIGTERM)
                ELSE UNCHANGED << child, status >>
      ELSE UNCHANGED << kills, pid, child, status >>

\* the exceptions one call of _cleanup lets out
CleanupEscapes ==
    { e \in (IF "close" \in CleanupEffects(master_fd, pid) THEN CloseErrors ELSE {})
            \cup (IF "kill" \in CleanupEffects(master_fd, pid) THEN KillErrors ELSE {}) :
        ~BareExceptCatches(e) }

\* def _cleanup(self)
CleanupCall ==
    /\ CloseMaster
    /\ KillChild
    /\ nCleanup' = nCleanup + 1
    /\ cleanupRaised' = (cleanupRaised \/ CleanupEscapes # {})

\* finally: self._cleanup()
Cleanup ==
    /\ pc = "cleanup"
    /\ CleanupCall
    /\ pc' = "done"
    /\ UNCHANGED << game, minVars, command, termVars, allocated, loopVars, exc, ret,
                    wrapperErr, nonblock, shared, ioVars, execMode,
                    execFailed, childEffects >>

\* ---------------------------------------------------------------- child
\* self.master_fd and self.pid as the child sees them: run assigns them in
\* the parent branch only
ChildSelf == [master_fd |-> None, pid |-> None]

\* args = shlex.split(self.command); execvp(args[0], args) if len(args) > 1
\* else execlp('bash', 'bash', '-c', self.command)
ExecOutcome(cmd) ==
    IF ~cmd.tok THEN "fail"
    ELSE IF cmd.words > 1 THEN (IF cmd.found THEN "argv" ELSE "fail")
    ELSE "shell"

\* the child branch of run; an exception there is caught by run's except
\* clause in the child, which returns 1 after run's finally: sys.exit(1)
ChildExec ==
    /\ child = "forked"
    /\ pc # "done"
    /\ IF ExecOutcome(command) = "fail"
         THEN /\ execFailed' = TRUE
              /\ childEffects' = CleanupEffects(ChildSelf.master_fd, ChildSelf.pid)
              /\ child' = "exited"
              /\ status' = ExitedStatus(ExceptReturn)
              /\ execMode' = execMode
         ELSE /\ execMode' = ExecOutcome(command)
              /\ child' = "running"
              /\ UNCHANGED << execFailed, childEffects, status >>
    /\ UNCHANGED << game, minVars, command, pc, termVars, fdVars, loopVars, exc, ret,
                    wrapperErr, nonblock, shared, ioVars >>

\* the program writes a byte to its terminal (the slave side); the forwarder
\* never looks into the data, so the n-th byte of a stream is modelled by n,
\* which tells every byte of the stream from every other
ChildWrite ==
    /\ child = "running"
    /\ pc # "done"
    /\ Len(masterRead) + Len(ptyOut) < MaxOutput
    /\ ptyOut' = Append(ptyOut, Len(masterRead) + Len(ptyOut) + 1)
    /\ UNCHANGED << game, minVars, command, pc, termVars, fdVars, loopVars, exc, ret,
                    wrapperErr, nonblock, shared, stdinBuf, stdinCond,
                    stdinRead, toMaster, masterRead, toStdout, childVars >>

\* the program exits with code c
ChildExit ==
    /\ child = "running"
    /\ pc # "done"
    /\ \E c \in ExitCodes : status' = ExitedStatus(c)
    /\ child' = "exited"
    /\ UNCHANGED << game, minVars, command, pc, termVars, fdVars, loopVars, exc, ret,
                    wrapperErr, nonblock, shared, ioVars, execMode,
                    execFailed, childEffects >>

\* the program is terminated by a signal from outside the session
ChildKilled ==
    /\ child \in {"forked", "running"}
    /\ pc # "done"
    /\ \E s \in Signals : status' = SignaledStatus(s)
    /\ child' = "signaled"
    /\ UNCHANGED << game, minVars, command, pc, termVars, fdVars, loopVars, exc, ret,
                    wrapperErr, nonblock, shared, ioVars, execMode,
                    execFailed, childEffects >>

\* ------------------------------------------------------- the terminal
\* the user types a byte (bytes typed before the loop starts wait in the
\* terminal's buffer, as bytes typed at its start do)
TypeKey ==
    /\ pc \in LoopPcs
    /\ stdinCond = "open"
    /\ Len(stdinRead) + Len(stdinBuf) < MaxInput
    /\ stdinBuf' = Append(stdinBuf, Len(stdinRead) + Len(stdinBuf) + 1)
    /\ UNCHANGED << game, minVars, command, pc, termVars, fdVars, loopVars, exc, ret,
                    wrapperErr, nonblock, shared, stdinCond, stdinRead,
                    toMaster, ptyOut, masterRead, toStdout, childVars >>

\* the terminal goes away: reads of stdin return b'' or fail from now on
StdinHangup ==
    /\ pc \in LoopPcs
    /\ stdinCond = "open"
    /\ \E c \in {"eof", "err"} : stdinCond' = c
    /\ UNCHANGED << game, minVars, command, pc, termVars, fdVars, loopVars, exc, ret,
                    wrapperErr, nonblock, shared, stdinBuf, stdinRead,
                    toMaster, ptyOut, masterRead, toStdout, childVars >>

\* ------------------------------------------------------- specification
Next ==
    \/ Tcgetattr
    \/ PtyFork
    \/ Setraw
    \/ SetNonblock
    \/ Select
    \/ HandleStdin
    \/ HandleMaster
    \/ Interrupt
    \/ Waitpid
    \/ RestoreTerminal
    \/ ExceptHandler
    \/ Cleanup
    \/ ChildExec
    \/ ChildWrite
    \/ ChildExit
    \/ ChildKilled
    \/ TypeKey
    \/ StdinHangup

Spec == Init /\ [][Next]_vars

\* ------------------------------------------ _cleanup called on its own
\* wait statuses a child in the given state can have
StatusesOf(c) ==
    IF c = "exited" THEN { ExitedStatus(x) : x \in ExitCodes }
    ELSE IF c = "signaled" THEN { SignaledStatus(x) : x \in Signals }
    ELSE IF c = "reaped" THEN { ExitedStatus(0), SignaledStatus(SIGTERM) }
    ELSE {None}

\* the states a ShellBotPTY object can be in when _cleanup is called: no
\* session, or the descriptor and pid of a session whose child is alive,
\* terminated or reaped, the descriptor open or already closed
SessionStates ==
    /\ \/ NoSession
       \/ /\ master_fd \in FdChoices
          /\ pid \in Pids
          /\ masterOpen \in BOOLEAN
          /\ allocated = TRUE
          /\ child \in {"forked", "running", "exited", "signaled", "reaped"}
          /\ status \in StatusesOf(child)

InitCleanup ==
    /\ command \in Commands
    /\ shared = FALSE
    /\ pc = "idle"
    /\ SessionStates
    /\ FreshRest
    /\ MinimalOff
    /\ GameOff

\* bot._cleanup(), called by the owner of the object outside run
CleanupByCaller ==
    /\ pc = "idle"
    /\ nCleanup < MaxCleanups
    /\ CleanupCall
    /\ UNCHANGED << game, minVars, command, pc, termVars, allocated, loopVars, exc, ret,
                    wrapperErr, nonblock, shared, ioVars, execMode,
                    execFailed, childEffects >>

NextCleanup ==
    \/ CleanupByCaller
    \/ ChildExec
    \/ ChildWrite
    \/ ChildExit
    \/ ChildKilled

SpecCleanup == InitCleanup /\ [][NextCleanup]_vars

\* ===================================================== MinimalShellBot
\* MinimalShellBot.__init__ and the environment before run is called
InitMinimal ==
    /\ PtyOff
    /\ GameOff
    /\ m_pc = "popen"
    /\ m_child = "none"
    /\ m_code = None
    /\ m_returncode = None
    /\ m_readsStdin \in BOOLEAN
    /\ m_childIn = << >>
    /\ m_childInEof = FALSE
    /\ m_wrote = [s \in Streams |-> << >>]
    /\ m_pipe = [s \in Streams |-> << >>]
    /\ m_fwd = [s \in Streams |-> << >>]
    /\ m_ready = {}
    /\ m_interrupted = FALSE
    /\ m_stdin = << >>
    /\ m_stdinEof = FALSE
    /\ m_ret = None

m_childVars == << m_child, m_code, m_readsStdin, m_childIn, m_childInEof >>
m_outVars == << m_wrote, m_pipe, m_fwd >>
m_inVars == << m_stdin, m_stdinEof, m_interrupted >>

\* self.process = subprocess.Popen(self.command, shell=True, stdin=PIPE,
\* stdout=PIPE, stderr=PIPE, bufsize=0); then the fcntl calls of
\* _simple_forward.  An exception goes to run's except clause.
MPopen ==
    /\ m_pc = "popen"
    /\ \/ /\ m_child' = "running"
          /\ m_pc' = "poll"
       \/ /\ m_child' = m_child
          /\ m_pc' = "except"
    /\ UNCHANGED << game, ptyVars, m_code, m_returncode, m_readsStdin, m_childIn,
                    m_childInEof, m_outVars, m_ready, m_inVars, m_ret >>

\* while self.process.poll() is None:
MPoll ==
    /\ m_pc = "poll"
    /\ IF m_child = "exited"
         THEN /\ m_returncode' = m_code
              /\ m_pc' = "wait"
         ELSE /\ m_returncode' = m_returncode
              /\ m_pc' = "select"
    /\ UNCHANGED << game, ptyVars, m_childVars, m_outVars, m_ready, m_inVars,
                    m_ret >>

\* a pipe is readable when it holds data or its write end is closed
MReadable(s) == m_pipe[s] # << >> \/ m_child = "exited"

\* ready_fds, _, _ = select.select(read_fds, [], [], 0.1)
MSelect ==
    /\ m_pc = "select"
    /\ m_ready' = {s \in Streams : MReadable(s)}
    /\ m_pc' = IF m_ready' = {} THEN "poll" ELSE "read_out"
    /\ UNCHANGED << game, ptyVars, m_childVars, m_returncode, m_outVars, m_inVars,
                    m_ret >>

\* except (select.error, KeyboardInterrupt): break
MInterrupt ==
    /\ m_pc = "select"
    /\ m_interrupted' = TRUE
    /\ m_pc' = "wait"
    /\ UNCHANGED << game, ptyVars, m_childVars, m_returncode, m_outVars, m_ready,
                    m_stdin, m_stdinEof, m_ret >>

\* data = os.read(fd, 8192); if data: write it to the wrapper's own stream
\* and flush; an OSError is passed over
MForward(s) ==
    IF s \in m_ready /\ m_pipe[s] # << >>
      THEN LET data == Take(m_pipe[s], ReadSize) IN
           /\ m_pipe' = [m_pipe EXCEPT ![s] = Drop(m_pipe[s], ReadSize)]
           /\ m_fwd' = [m_fwd EXCEPT ![s] = m_fwd[s] \o data]
      ELSE UNCHANGED << m_pipe, m_fwd >>

\* for fd in ready_fds: if fd == stdout_fd: ...
MReadOut ==
    /\ m_pc = "read_out"
    /\ MForward("out")
    /\ m_pc' = "read_err"
    /\ UNCHANGED << game, ptyVars, m_childVars, m_returncode, m_wrote, m_ready,
                    m_inVars, m_ret >>

\* for fd in ready_fds: elif fd == stderr_fd: ...
MReadErr ==
    /\ m_pc = "read_err"
    /\ MForward("err")
    /\ m_pc' = "poll"
    /\ UNCHANGED << game, ptyVars, m_childVars, m_returncode, m_wrote, m_ready,
                    m_inVars, m_ret >>

\* return self.process.wait()
MWait ==
    /\ m_pc = "wait"
    /\ m_child = "exited"
    /\ m_returncode' = m_code
    /\ m_ret' = m_code
    /\ m_pc' = "finally"
    /\ UNCHANGED << game, ptyVars, m_childVars, m_outVars, m_ready, m_inVars >>

\* except Exception as e: print(...); return 1
MExcept ==
    /\ m_pc = "except"
    /\ m_ret' = ExceptReturn
    /\ m_pc' = "finally"
    /\ UNCHANGED << game, ptyVars, m_childVars, m_returncode, m_outVars, m_ready,
                    m_inVars >>

\* finally: if self.process: if self.process.poll() is None: terminate, wait
MFinally ==
    /\ m_pc = "finally"
    /\ IF m_child = "running"
         THEN /\ m_child' = "exited"
              /\ m_code' = 0 - SIGTERM
              /\ m_returncode' = 0 - SIGTERM
         ELSE /\ m_returncode' = IF m_child = "exited" THEN m_code
                                 ELSE m_returncode
              /\ UNCHANGED << m_child, m_code >>
    /\ m_pc' = "done"
    /\ UNCHANGED << game, ptyVars, m_readsStdin, m_childIn, m_childInEof,
                    m_outVars, m_ready, m_inVars, m_ret >>

\* ---------------------------------------------- the child on its pipes
\* the child writes a byte to its stdout or its stderr
MChildWrite ==
    /\ m_child = "running"
    /\ Len(m_wrote["out"]) + Len(m_wrote["err"]) < MaxOutput
    /\ \E s \in Streams :
          /\ m_wrote' = [m_wrote EXCEPT ![s] = Append(m_wrote[s], Len(m_wrote[s]) + 1)]
          /\ m_pipe' = [m_pipe EXCEPT ![s] = Append(m_pipe[s], Len(m_wrote[s]) + 1)]
    /\ UNCHANGED << game, ptyVars, m_pc, m_childVars, m_returncode, m_fwd, m_ready,
                    m_inVars, m_ret >>

\* the child exits with code c; a child that reads its stdin until
\* end-of-file first has to be given that end-of-file
MChildExit ==
    /\ m_child = "running"
    /\ m_readsStdin => m_childInEof
    /\ \E c \in ExitCodes : m_code' = c
    /\ m_child' = "exited"
    /\ UNCHANGED << game, ptyVars, m_pc, m_returncode, m_readsStdin, m_childIn,
                    m_childInEof, m_outVars, m_ready, m_inVars, m_ret >>

\* -------------------------------------------------- the wrapper's stdin
\* a byte arrives on the wrapper's stdin
MStdinByte ==
    /\ m_pc \notin {"off", "done"}
    /\ ~m_stdinEof
    /\ Len(m_stdin) < MaxInput
    /\ m_stdin' = Append(m_stdin, Len(m_stdin) + 1)
    /\ UNCHANGED << game, ptyVars, m_pc, m_childVars, m_returncode, m_outVars,
                    m_ready, m_stdinEof, m_interrupted, m_ret >>

\* the wrapper's stdin reaches end-of-file
MStdinEof ==
    /\ m_pc \notin {"off", "done"}
    /\ ~m_stdinEof
    /\ m_stdinEof' = TRUE
    /\ UNCHANGED << game, ptyVars, m_pc, m_childVars, m_returncode, m_outVars,
                    m_ready, m_stdin, m_interrupted, m_ret >>

NextMinimal ==
    \/ MPopen
    \/ MPoll
    \/ MSelect
    \/ MInterrupt
    \/ MReadOut
    \/ MReadErr
    \/ MWait
    \/ MExcept
    \/ MFinally
    \/ MChildWrite
    \/ MChildExit
    \/ MStdinByte
    \/ MStdinEof

SpecMinimal == InitMinimal /\ [][NextMinimal]_vars

\* the wrapper and the child are running processes: each takes its next
\* step when it has one
WrapperStep ==
    MPopen \/ MPoll \/ MSelect \/ MReadOut \/ MReadErr \/ MWait \/ MExcept
        \/ MFinally

FairSpecMinimal ==
    /\ SpecMinimal
    /\ WF_vars(WrapperStep)
    /\ WF_vars(MChildWrite)
    /\ WF_vars(MChildExit)

\* =========================================================== AddingGame
\* random.randint(10, 99) and the two random.choice lists of
\* generate_question, its rerolls random.randint(-10, 10)
Operands ==
    (NumLo .. (NumLo + OperandSpan)) \cup ((NumHi - OperandSpan) .. NumHi)
Wrong1Deltas == ((-5) .. (-1)) \cup (1 .. 5)
Wrong2Deltas == ((-10) .. (-6)) \cup (6 .. 10)
RerollDeltas == (-10) .. 10

\* what the random source can return: every value of the choice lists, for
\* operands at both ends of their range
AllDraws == [nums |-> Operands, wrong1 |-> Wrong1Deltas, wrong2 |-> Wrong2Deltas]

\* a sample of it for a game of several questions
PlayDraws == [nums |-> {NumLo, NumHi}, wrong1 |-> {-5, 1}, wrong2 |-> {-6, 10}]

Max(a, b) == IF a >= b THEN a ELSE b

\* f"{opt}" for an integer opt >= 0: its decimal digits
RECURSIVE Str(_)
Str(n) == IF n < 10 THEN << n >> ELSE Append(Str(n \div 10), n % 10)

\* while w == correct or w == other: w = max(1, correct + randint(-10, 10))
\* the values w can have when the loop is left
Reroll(w, correct, other) ==
    IF w = correct \/ w = other
      THEN { v \in { Max(1, correct + d) : d \in RerollDeltas } :
               ~(v = correct \/ v = other) }
      ELSE {w}

\* (wrong1, wrong2) after lines 94-105, for the draws D allows
WrongPairs(correct, D) ==
    UNION { LET w1 == Max(1, correct + dd[1])
                w2 == Max(1, correct + dd[2])
            IN  UNION { { << r1, r2 >> : r2 \in Reroll(w2, correct, r1) } :
                        r1 \in Reroll(w1, correct, w2) } :
            dd \in D.wrong1 \X D.wrong2 }

\* random.shuffle(options): any order of the three
Perms == { p \in [1 .. 3 -> 1 .. 3] : \A i, j \in 1 .. 3 : p[i] = p[j] => i = j }
Shuffled(options, p) == [i \in 1 .. 3 |-> options[p[i]]]

\* a variant that takes the index before the list is shuffled
IndexBeforeShuffle(options, v) == 1 - 1

\* options.index(v): the first position holding v, counted from 0
IndexOf(options, v) ==
    (CHOOSE i \in 1 .. Len(options) :
        options[i] = v /\ \A j \in 1 .. (i - 1) : options[j] # v) - 1

\* the (question, options) generate_question can come to
Questions(D) ==
    UNION { { [nums |-> nn,
               options |-> Shuffled(<< nn[1] + nn[2], w[1], w[2] >>, p)] :
              w \in WrongPairs(nn[1] + nn[2], D), p \in Perms } :
            nn \in D.nums \X D.nums }

\* def generate_question(self): the objects it can leave
generate_question(g, D) ==
    { [g EXCEPT !.correct_index = IndexOf(q.options, q.nums[1] + q.nums[2]),
                !.current_question = q.nums,
                !.current_options = [i \in 1 .. 3 |-> Str(q.options[i])]] :
      q \in Questions(D) }

Ord == [c \in {"a", "b", "c"} |-> CASE c = "a" -> 97 [] c = "b" -> 98 [] c = "c" -> 99]

\* a variant that counts the choices from 1
ChoiceIndexFromOne(choice) ==
    IF choice \in {"a", "b", "c"} THEN Ord[choice] - 96 ELSE -1

\* choice_index = ord(choice) - 97 if choice in ['a', 'b', 'c'] else -1
ChoiceIndex(choice) ==
    IF choice \in {"a", "b", "c"} THEN Ord[choice] - 97 ELSE -1

\* def check_answer(self, choice)
check_answer(g, choice) ==
    [g EXCEPT !.total_questions = @ + 1,
              !.correct_answers =
                  IF ChoiceIndex(choice) = g.correct_index THEN @ + 1 ELSE @]

\* the characters a read of the keyboard returns: the choices, q, Ctrl-C,
\* the two Enter characters, backspace, and keys the game ignores
CtrlC == "^C"
Backspace == "^?"
Keys == {"a", "b", "c", "q", CtrlC, "\r", "\n", Backspace, "x", "A"}

\* AddingGame.__init__
InitGame ==
    /\ game = [pc |-> "start", running |-> TRUE, correct_answers |-> 0,
               total_questions |-> 0, current_question |-> << >>,
               current_options |-> << >>, correct_index |-> 0,
               input_buffer |-> "", key |-> ""]
    /\ PtyOff
    /\ MinimalOff

\* the body of "while self.running" for a key that was read (lines 184-216):
\* the objects it can leave
HandleKey(g, D) ==
    IF g.key = "q" \/ g.key = CtrlC
      THEN { [g EXCEPT !.running = FALSE, !.pc = "done"] }
    ELSE IF g.key = "\r" \/ g.key = "\n"
      THEN IF g.input_buffer \in {"a", "b", "c"}
             THEN { [n EXCEPT !.input_buffer = ""] :
                    n \in generate_question(check_answer(g, g.input_buffer), D) }
             ELSE { [g EXCEPT !.input_buffer = ""] }
    ELSE IF g.key \in {"a", "b", "c"}
      THEN { [g EXCEPT !.input_buffer = g.key] }
    ELSE IF g.key = Backspace
      THEN { [g EXCEPT !.input_buffer = ""] }
    ELSE { g }

\* run up to the loop: tty.setraw(fd); self.generate_question()
GameStart(D) ==
    /\ game.pc = "start"
    /\ game' \in generate_question([game EXCEPT !.pc = "play"], D)
    /\ UNCHANGED << ptyVars, minVars >>

\* key = self._read_char_with_timeout(0.1), and what the loop does with it
PressKey ==
    /\ game.pc = "play"
    /\ \E k \in Keys :
          /\ k \in {"\r", "\n"} /\ game.input_buffer \in {"a", "b", "c"}
                => game.total_questions < MaxQuestions
          /\ game' \in HandleKey([game EXCEPT !.key = k], PlayDraws)
    /\ UNCHANGED << ptyVars, minVars >>

\* except KeyboardInterrupt: pass (a signal from outside: the terminal is raw)
GameInterrupt ==
    /\ game.pc = "play"
    /\ game' = [game EXCEPT !.pc = "done"]
    /\ UNCHANGED << ptyVars, minVars >>

StartPlay == GameStart(PlayDraws)

NextGame ==
    \/ StartPlay
    \/ PressKey
    \/ GameInterrupt

SpecGame == InitGame /\ [][NextGame]_vars

\* generate_question on its own, over the whole of its random choices
AskQuestion == GameStart(AllDraws)

NextQuestion == AskQuestion

SpecQuestion == InitGame /\ [][NextQuestion]_vars

\* ---------------------------------------------------------------- claims
Done == pc = "done"

C2_MasterClosedOnce ==
    /\ nClose <= 1
    /\ ~badUse
    /\ ~allocated => nClose = 0
    /\ Done => nClose = (IF allocated THEN 1 ELSE 0)
    /\ nClose = 1 => ~masterOpen /\ pc = "done"

C2_Witness ==
    Done /\ nClose = 1 /\ loopEnd = "eof" /\ Len(masterRead) = MaxOutput

\* C3 as stated: as long as no read or write has failed with a fatal error,
\* what was written to the master is a prefix of what was read from stdin,
\* what was written to stdout is a prefix of what was read from the master,
\* and at the head of every iteration of the running loop everything read
\* has been written.
C3_ByteExact ==
    ~ioErr =>
        /\ IsPrefix(toMaster, stdinRead)
        /\ IsPrefix(toStdout, masterRead)
        /\ pc = "loop" /\ running =>
              toMaster = stdinRead /\ toStdout = masterRead

\* C4 as stated: once the master is at end-of-stream the loop ends within a
\* bounded number of iterations: one, and one more for each chunk it took
\* from stdin in between.
C4_LoopEndsAtEof ==
    polls <= 1 + Len(stdinRead)

\* C5: when run has finished without a wrapper error and the child had
\* exited with code c, run returned c, however the loop ended.
C5_ExitCodePropagated ==
    \A c \in 0 .. 255 :
        Done /\ ~wrapperErr /\ status = ExitedStatus(c) => ret = c

C5_Witness ==
    Done /\ ~wrapperErr /\ status = ExitedStatus(42) /\ ret = 42
        /\ loopEnd = "read_error"

\* C6 as stated, for a child that ends by a normal exit: a run interrupted
\* in the forwarding loop finishes with a non-zero exit code.
C6_InterruptNonZero ==
    Done /\ interrupted /\ status # None /\ WIFEXITED(status) => ret # 0

\* C7 as stated: when run has returned, every byte the child wrote to its
\* stdout has been written, in order, to the wrapper's stdout.
C7_AllOutputForwarded ==
    m_pc = "done" /\ m_ret # None => m_fwd["out"] = m_wrote["out"]

\* C8 as stated, for a run that was not interrupted: when the child's wait
\* status is a signal-termination status, run returns a non-zero exit code.
C8_SignalNonZero ==
    Done /\ ~interrupted /\ status # None /\ ~WIFEXITED(status) => ret # 0

\* C9: when the child cannot replace its program image, the child exits with
\* a non-zero code and has neither restored the terminal, closed a master
\* descriptor nor signalled a process; the parent's loop ends on the pty's
\* closure (or on an event of its own) and run returns a non-zero code.
C9_ExecFailureStaysInChild ==
    execFailed =>
        /\ WIFEXITED(status) /\ WEXITSTATUS(status) # 0
        /\ childEffects = {}
        /\ pc \in {"setraw", "fcntl", "wait"} \cup LoopPcs => nRestore = 0
        /\ nClose = 1 => pc = "done"
        /\ Done => ret # None /\ ret # 0

C9_Witness ==
    execFailed /\ Done /\ ret = 1 /\ loopEnd = "eof" /\ ~wrapperErr

\* C10 as stated, for a run that is not interrupted: once the wrapper's stdin
\* is at end-of-file, a child that reads its stdin until end-of-file is given
\* that end-of-file, so it terminates and run returns.
C10_StdinEofEndsRun ==
    (m_readsStdin /\ m_stdinEof /\ m_child = "running")
        ~> (m_pc = "done" \/ m_interrupted)

\* the loop ended on an interrupt or on a failed write, not on the closure of
\* the pty
AbnormalEnds == {"interrupt", "write_error", "write_eagain"}

\* C11 as stated: when the forwarding loop has ended abnormally and the
\* wrapper waits for a child that is still alive, the wrapper has sent that
\* child a termination signal.
C11_AbnormalEndSignalsChild ==
    pc = "wait" /\ loopEnd \in AbnormalEnds /\ child \in {"forked", "running"}
        => kills # << >>

\* C12 as stated: after a read or a write of the loop has failed with an
\* error other than would-block, running is false and the wrapper is at no
\* step of the loop any more.
C12_FatalErrorEndsLoop ==
    ioErr => ~running /\ pc \notin LoopPcs

\* C13 as stated: the loop is never ended, and running never cleared, by a
\* would-block result of one of its reads or writes.
C13_WouldBlockKeepsLoop ==
    loopEnd # "write_eagain"

\* C14 as stated: no error message is printed while the real terminal is in
\* raw mode.
C14_NoPrintInRawMode ==
    "raw" \notin printedIn

\* C14 as amended: when the parent is about to print an error message after
\* raw mode was entered, tcsetattr has already been called with the saved
\* attributes; an error message is printed in raw mode only when that call
\* itself failed and left the terminal raw, and never when raw mode was not
\* entered.
C14_PrintAfterRestoreAttempt ==
    /\ pc = "except" /\ wasRaw => nRestore = 1
    /\ "raw" \in printedIn => nRestore = 1 /\ term = "raw"
    /\ ~wasRaw => printedIn \subseteq {"cooked"}

C14_Witness ==
    Done /\ wasRaw /\ nRestore = 1 /\ printedIn = {"cooked"}

\* C15 as stated, for a command string that tokenizes: the child executes
\* it as an argv word list only when it has no shell constructs, and once the
\* child has gone through its exec step with a string that has shell
\* constructs, it runs (shell -c string).
C15_ShellIndirection ==
    command.tok =>
        /\ execMode = "argv" => ~command.shell
        /\ (execMode # "none" \/ execFailed) /\ command.shell
              => execMode = "shell"

\* C16: no call of _cleanup lets an exception out, and every call after the
\* first one closes nothing and signals nothing.
C16_CleanupIdempotent ==
    /\ [](~cleanupRaised)
    /\ [](nCleanup >= 1 => CleanupEffects(master_fd, pid) = {})
    /\ [][nCleanup >= 1 => nClose' = nClose /\ kills' = kills]_vars

C16_Witness ==
    /\ pc = "idle"
    /\ nCleanup >= 2
    /\ nClose = 1
    /\ badUse
    /\ Len(kills) = 1 /\ kills[1][2] = "reaped"

\* C17 as stated, for a session whose loop ended at the end-of-stream of the
\* pty and in which os.waitpid succeeded: no os.kill is issued to the pid of
\* a child that os.waitpid has reaped.
C17_NoKillAfterReap ==
    loopEnd = "eof" /\ ~wrapperErr =>
        \A i \in DOMAIN kills : kills[i][2] # "reaped"

\* C18 as stated, for a session whose loop ended at the end-of-stream of the
\* pty: when run has returned, O_NONBLOCK on stdin is what it was before run
\* was called (clear).
C18_StdinFlagsRestored ==
    Done /\ loopEnd = "eof" /\ ~wrapperErr => nonblock = FALSE

\* position of a choice among a, b, c, counted from 0
ChosenIndex(b) == CHOOSE i \in 0 .. 2 : << "a", "b", "c" >>[i + 1] = b

\* the step is a press of Enter with one of a, b, c in input_buffer (when
\* key is already an Enter character, input_buffer is empty)
CountedEnter ==
    /\ game.pc = "play"
    /\ game.input_buffer \in {"a", "b", "c"}
    /\ game'.key \in {"\r", "\n"}

\* C19: 0 <= correct_answers <= total_questions in every state; a step
\* changes total_questions exactly when Enter is pressed with one of a, b, c
\* in input_buffer, and then by 1; it changes correct_answers only then, by
\* 1, and only if the index of the choice equals correct_index.
C19_CountersFollowAnswers ==
    /\ [](0 <= game.correct_answers
            /\ game.correct_answers <= game.total_questions)
    /\ [](game.key \in {"\r", "\n"} => game.input_buffer = "")
    /\ [][ /\ game'.total_questions =
                game.total_questions + (IF CountedEnter THEN 1 ELSE 0)
           /\ game'.correct_answers =
                game.correct_answers
                    + (IF CountedEnter
                            /\ ChosenIndex(game.input_buffer) = game.correct_index
                         THEN 1 ELSE 0) ]_vars

C19_Witness ==
    /\ game.pc = "play"
    /\ game.total_questions = MaxQuestions
    /\ game.correct_answers = 1
    /\ game.key = "\n"

\* value of a string of decimal digits
RECURSIVE Value(_)
Value(s) ==
    IF s = << >> THEN 0
    ELSE 10 * Value(SubSeq(s, 1, Len(s) - 1)) + s[Len(s)]

\* C20: once generate_question has run, current_options holds three values,
\* pairwise distinct, exactly one of them equals num1 + num2, and
\* correct_index is its position.
C20_OneCorrectOption ==
    game.pc = "play" =>
        LET o == game.current_options
            sum == game.current_question[1] + game.current_question[2]
        IN  /\ Len(o) = 3
            /\ \A i, j \in 1 .. 3 : i # j => Value(o[i]) # Value(o[j])
            /\ Cardinality({ i \in 1 .. 3 : Value(o[i]) = sum }) = 1
            /\ game.correct_index \in 0 .. 2
            /\ Value(o[game.correct_index + 1]) = sum

C20_Witness ==
    /\ game.pc = "play"
    /\ game.current_question = << NumLo, NumLo >>
    /\ game.correct_index = 2
    /\ game.current_options[1] = Str(NumLo)
    /\ game.current_options[2] = Str(NumLo + NumLo + 5)

====
